---------------------------- MODULE Spec2Model ----------------------------
(***************************************************************************)
(* Model of c_v1.js: a command-line solver for polynomial equations of    *)
(* degree <= 2.  The pipeline is                                           *)
(*   split on '='  ->  parseSide (twice)  ->  getReducedForm               *)
(*   ->  buildReducedString, getDegree  ->  solveLinear / solveQuadratic.  *)
(*                                                                         *)
(* Text is a sequence of one-character strings.  A JavaScript number is an *)
(* integer count of a fixed unit of 5e-9 (UnitsPerOne units make 1), so    *)
(* the literal 1e-8 of the source is EPS = 2 units; a product of two       *)
(* coefficients (the discriminant) counts squared units, where 1e-8 is     *)
(* DEPS units.  NaN and undefined are two reserved values outside the      *)
(* range of every number the model computes.  A quotient is kept as the    *)
(* pair <<numerator, denominator>>.                                        *)
(***************************************************************************)
EXTENDS Integers, Sequences, FiniteSets, TLC

VARIABLES
    pc,          \* position in the operation being run
    equation,    \* solvePolynomial: the argument (text)
    side,        \* parseSide: the argument (text)
    leftCoeffs,  \* coefficient mapping of the left side / parseSide's result
    rightCoeffs, \* coefficient mapping of the right side
    reduced,     \* the reduced mapping
    reducedStr,  \* buildReducedString's result, a sequence of text pieces
    degree,      \* getDegree's result
    qa, qb, qc,  \* solveQuadratic: the arguments
    result,      \* solveQuadratic's / solveLinear's return value
    out,         \* lines written so far (console.log / console.error)
    calls,       \* calls of solveLinear, solveQuadratic, sqrtCustom so far
    thrown,      \* TRUE once sqrtCustom has thrown
    pieces       \* the pieces the text given to parseSide was put together from

vars == <<pc, equation, side, leftCoeffs, rightCoeffs, reduced, reducedStr,
          degree, qa, qb, qc, result, out, calls, thrown, pieces>>

----------------------------------------------------------------------------
(* Numbers *)

\* how many units make the number 1 (the unit is 5e-9)
UnitsPerOne == 2 * 10^8

\* the tolerance 1e-8 on a coefficient, in units
EPS == UnitsPerOne \div 10^8

\* the tolerance 1e-8 on a discriminant, in squared units
DEPS == EPS * UnitsPerOne

\* the value NaN, as parseFloat returns it
NaN == 0 - 2^30

\* the value undefined, as reading a missing property returns it
Undefined == NaN - 1

\* the empty object {}
EmptyMap == [e \in {} |-> 0]

\* function abs(x)
abs(x) == IF x < 0 THEN -x ELSE x

\* a + b of JavaScript: NaN when either operand is NaN
JsAdd(a, b) == IF a = NaN \/ b = NaN THEN NaN ELSE a + b

\* v || 0 of JavaScript: undefined, NaN and 0 are falsy
OrZero(v) == IF v = Undefined \/ v = NaN \/ v = 0 THEN 0 ELSE v

\* obj[key] of JavaScript
Get(obj, key) == IF key \in DOMAIN obj THEN obj[key] ELSE Undefined

\* the object obj after obj[key] = val
Put(obj, key, val) ==
    [e \in DOMAIN obj \cup {key} |-> IF e = key THEN val ELSE obj[e]]

RECURSIVE SortedSeq(_)
\* the elements of a finite set of integers in increasing order
SortedSeq(S) ==
    IF S = {} THEN <<>>
    ELSE LET m == CHOOSE x \in S : \A y \in S : x <= y
         IN <<m>> \o SortedSeq(S \ {m})

\* Object.keys(obj).map(Number): integer keys come in increasing order
Keys(obj) == SortedSeq(DOMAIN obj)

----------------------------------------------------------------------------
(* Text *)

Digits == {"0", "1", "2", "3", "4", "5", "6", "7", "8", "9"}

\* the value of a decimal digit
DigitVal(c) ==
    CASE c = "0" -> 0 [] c = "1" -> 1 [] c = "2" -> 2 [] c = "3" -> 3
      [] c = "4" -> 4 [] c = "5" -> 5 [] c = "6" -> 6 [] c = "7" -> 7
      [] c = "8" -> 8 [] c = "9" -> 9

\* the class \d of the regular expressions
IsDigit(c) == c \in Digits

\* the class [\d.] of termRegex
IsCoefChar(c) == IsDigit(c) \/ c = "."

\* the class [+-] of termRegex
IsSign(c) == c \in {"+", "-"}

\* the class \s
IsSpace(c) == c = " "

\* side.replace(/\s/g, '')
StripSpaces(s) == SelectSeq(s, LAMBDA c : ~IsSpace(c))

RECURSIVE DigitRunEnd(_, _)
\* the first index at or after i where s holds no digit (greedy \d+)
DigitRunEnd(s, i) ==
    IF i <= Len(s) /\ IsDigit(s[i]) THEN DigitRunEnd(s, i + 1) ELSE i

RECURSIVE CoefRunEnd(_, _)
\* the first index at or after i where s holds no digit or dot (greedy [\d.]+)
CoefRunEnd(s, i) ==
    IF i <= Len(s) /\ IsCoefChar(s[i]) THEN CoefRunEnd(s, i + 1) ELSE i

RECURSIVE DecimalValue(_, _)
\* the number the digits ds spell, after the digits that spelt acc
DecimalValue(ds, acc) ==
    IF ds = <<>> THEN acc
    ELSE DecimalValue(Tail(ds), acc * 10 + DigitVal(Head(ds)))

\* parseInt(text, 10) of a run of digits
parseInt(ds) == DecimalValue(ds, 0)

RECURSIVE FractionUnits(_, _)
\* the units the fraction digits ds are worth, the first one weighing 1/pow;
\* a digit below the resolution of the unit is worth nothing
FractionUnits(ds, pow) ==
    IF ds = <<>> THEN 0
    ELSE (DigitVal(Head(ds)) * UnitsPerOne) \div pow
         + (IF pow < 10^9 THEN FractionUnits(Tail(ds), pow * 10) ELSE 0)

\* parseFloat(text) of an optional sign and a run of digits and dots: the
\* longest prefix that is a decimal literal, NaN when it holds no digit
parseFloat(t) ==
    LET neg     == t # <<>> /\ t[1] = "-"
        from    == IF t # <<>> /\ IsSign(t[1]) THEN 2 ELSE 1
        intEnd  == DigitRunEnd(t, from)
        intp    == SubSeq(t, from, intEnd - 1)
        hasDot  == intEnd <= Len(t) /\ t[intEnd] = "."
        fracEnd == IF hasDot THEN DigitRunEnd(t, intEnd + 1) ELSE intEnd
        frac    == IF hasDot THEN SubSeq(t, intEnd + 1, fracEnd - 1) ELSE <<>>
        mag     == parseInt(intp) * UnitsPerOne + FractionUnits(frac, 10)
    IN IF intp = <<>> /\ frac = <<>> THEN NaN
       ELSE IF neg THEN -mag ELSE mag

\* one attempt of /([+-]?[\d.]+)\*X\^(\d+)/ at index i of s.  Every
\* quantifier is greedy and backtracking cannot help: a shorter coefficient
\* run is followed by a digit or a dot, never by '*'.
MatchAt(s, i) ==
    LET j    == IF i <= Len(s) /\ IsSign(s[i]) THEN i + 1 ELSE i
        k    == CoefRunEnd(s, j)
        lit  == k + 2 <= Len(s) /\ s[k] = "*" /\ s[k + 1] = "X" /\ s[k + 2] = "^"
        e    == k + 3
        f    == DigitRunEnd(s, e)
    IN [ok   |-> k > j /\ lit /\ f > e,
        coef |-> SubSeq(s, i, k - 1),
        exp  |-> SubSeq(s, e, f - 1),
        end  |-> f]

RECURSIVE ExecFrom(_, _, _)
\* the loop of parseSide: termRegex.exec from lastIndex = from until null
ExecFrom(s, from, coeffs) ==
    IF from > Len(s) THEN coeffs
    ELSE LET m == MatchAt(s, from)
         IN IF ~m.ok THEN ExecFrom(s, from + 1, coeffs)
            ELSE LET coef == parseFloat(m.coef)
                     exp  == parseInt(m.exp)
                 IN ExecFrom(s, m.end,
                             Put(coeffs, exp, JsAdd(OrZero(Get(coeffs, exp)), coef)))

\* function parseSide(side)
parseSide(s) == ExecFrom(StripSpaces(s), 1, EmptyMap)

----------------------------------------------------------------------------
(* Reducer *)

\* getReducedForm, were it to leave out the exponents whose net is 0
getReducedFormNoZero(left, right) ==
    [exp \in {e \in DOMAIN left \cup DOMAIN right :
                 OrZero(Get(left, e)) # OrZero(Get(right, e))} |->
        OrZero(Get(left, exp)) - OrZero(Get(right, exp))]

\* function getReducedForm(leftCoeffs, rightCoeffs)
getReducedForm(left, right) ==
    [exp \in DOMAIN left \cup DOMAIN right |->
        OrZero(Get(left, exp)) - OrZero(Get(right, exp))]

\* SkipTerm, were it to leave out every zero term, the only one too
SkipTermAlways(coef, n) == coef = 0

\* the test of buildReducedString that leaves a term out of the display
SkipTerm(coef, n) == coef = 0 /\ n > 1

\* the sign text of buildReducedString before the term at index idx (from 0)
TermPrefix(coef, idx) ==
    IF idx = 0 THEN (IF coef < 0 THEN "-" ELSE "")
    ELSE (IF coef < 0 THEN " - " ELSE " + ")

\* termStr of buildReducedString, as the pieces appended to it; a number is
\* written as its count of units
TermStr(coef, exp, idx) ==
    <<TermPrefix(coef, idx), ToString(abs(coef)), " * X^", ToString(exp)>>

RECURSIVE RenderFrom(_, _, _)
\* the forEach of buildReducedString from index idx (from 0) on
RenderFrom(red, exponents, idx) ==
    IF idx >= Len(exponents) THEN <<>>
    ELSE LET exp  == exponents[idx + 1]
             coef == red[exp]
         IN (IF SkipTerm(coef, Len(exponents)) THEN <<>>
             ELSE TermStr(coef, exp, idx))
            \o RenderFrom(red, exponents, idx + 1)

\* function buildReducedString(reduced): result || "0"
buildReducedString(red) ==
    LET res == RenderFrom(red, Keys(red), 0)
    IN IF res = <<>> THEN <<"0">> ELSE res

----------------------------------------------------------------------------
(* Degree classifier *)

RECURSIVE MaxLoop(_, _, _)
\* the for loop of maxInArray at index i (from 0) with the maximum m so far
MaxLoop(arr, i, m) ==
    IF i >= Len(arr) THEN m
    ELSE MaxLoop(arr, i + 1, IF arr[i + 1] > m THEN arr[i + 1] ELSE m)

\* maxInArray, were its loop never to replace m
maxInArrayFirst(arr) == arr[1]

\* function maxInArray(arr), of a non-empty array
maxInArray(arr) == MaxLoop(arr, 1, arr[1])

\* Survives, were it to compare the coefficient with 0
SurvivesNonZero(red, exp) == red[exp] # 0

\* Survives, were it to keep a coefficient equal to the tolerance
SurvivesAtLeast(red, exp) == abs(red[exp]) >= EPS

\* the filter of getDegree: the coefficient at exp is not negligible
Survives(red, exp) == abs(red[exp]) > EPS

\* function getDegree(reduced)
getDegree(red) ==
    LET nonZeroExps == SelectSeq(Keys(red), LAMBDA exp : Survives(red, exp))
    IN IF Len(nonZeroExps) > 0 THEN maxInArray(nonZeroExps) ELSE 0

----------------------------------------------------------------------------
(* Solver *)

\* let epsilon = 1e-10 of sqrtCustom: below the unit, it is one unit here, the
\* error of one rounded division
epsilon == 1

RECURSIVE NewtonLoop(_, _)
\* the do-while of sqrtCustom, entered with x
NewtonLoop(n, last) ==
    LET x == (last + n \div last) \div 2
    IN IF abs(x - last) > epsilon THEN NewtonLoop(n, x) ELSE x

\* function sqrtCustom(n): n counts squared units, the value returned counts
\* units; the first x is the number n itself, at least one unit
sqrtCustom(n) ==
    IF n < 0 THEN [thrown |-> TRUE, value |-> 0]
    ELSE IF n = 0 THEN [thrown |-> FALSE, value |-> 0]
    ELSE LET x0 == n \div UnitsPerOne
         IN [thrown |-> FALSE,
             value  |-> NewtonLoop(n, IF x0 < 1 THEN 1 ELSE x0)]

\* the quotient num / den
Quot(num, den) == <<num, den>>

\* function solveLinear(a, b); null is the record of type "null"
solveLinear(a, b) ==
    IF abs(a) < EPS THEN [type |-> "null", solutions |-> <<>>]
    ELSE [type |-> "root", solutions |-> <<Quot(-b, a)>>]

\* the first test of solveQuadratic on the discriminant
IsPositive(discriminant) == discriminant > DEPS

\* the second test of solveQuadratic on the discriminant
IsZero(discriminant) == abs(discriminant) < DEPS

\* function solveQuadratic(a, b, c).  sqrtArgs lists the arguments given to
\* sqrtCustom; thrown says that sqrtCustom threw, and then nothing is returned.
\* A complex solution is the record of its real part, sign and imaginary part.
solveQuadratic(a, b, c) ==
    LET discriminant == b * b - 4 * a * c
    IN IF IsPositive(discriminant) THEN
           LET r == sqrtCustom(discriminant)
           IN [thrown |-> r.thrown, sqrtArgs |-> <<discriminant>>,
               discriminant |-> discriminant,
               type |-> IF r.thrown THEN "none" ELSE "positive",
               solutions |-> IF r.thrown THEN <<>>
                             ELSE <<Quot(-b + r.value, 2 * a),
                                    Quot(-b - r.value, 2 * a)>>]
       ELSE IF IsZero(discriminant) THEN
           [thrown |-> FALSE, sqrtArgs |-> <<>>,
            discriminant |-> discriminant,
            type |-> "zero",
            solutions |-> <<Quot(-b, 2 * a)>>]
       ELSE
           LET r == sqrtCustom(-discriminant)
               realPart == Quot(-b, 2 * a)
               imagPart == Quot(r.value, 2 * a)
           IN [thrown |-> r.thrown, sqrtArgs |-> <<-discriminant>>,
               discriminant |-> discriminant,
               type |-> IF r.thrown THEN "none" ELSE "negative",
               solutions |-> IF r.thrown THEN <<>>
                             ELSE <<[re |-> realPart, op |-> "+", im |-> imagPart],
                                    [re |-> realPart, op |-> "-", im |-> imagPart]>>]

----------------------------------------------------------------------------
(* solvePolynomial *)

RECURSIVE SplitFrom(_, _, _)
\* equation.split('=') from index i on, cur being the piece under way
SplitFrom(s, i, cur) ==
    IF i > Len(s) THEN <<cur>>
    ELSE IF s[i] = "=" THEN <<cur>> \o SplitFrom(s, i + 1, <<>>)
    ELSE SplitFrom(s, i + 1, Append(cur, s[i]))

\* equation.split('=')
Split(s) == SplitFrom(s, 1, <<>>)

\* the limit of solvePolynomial: degree > 2
TooHigh(d) == d > 2

\* one line of output: its fixed text and the value written with it
Line(text, val) == [line |-> text, val |-> val]

MsgInvalid  == "Invalid equation format. Must contain one '=' sign."
MsgReduced  == "Reduced form:"
MsgDegree   == "Polynomial degree:"
MsgTooHigh  == "The polynomial degree is strictly greater than 2, I can't solve."
MsgAllReals == "All real numbers are solutions."
MsgNoSol    == "No solution."
MsgLinear   == "The solution is:"
MsgPositive == "Discriminant is strictly positive, the two solutions are:"
MsgZero     == "Discriminant is zero, the solution is:"
MsgNegative == "Discriminant is strictly negative, the two complex solutions are:"

\* the value of result before any solver has returned
NoResult == [type |-> "none", solutions |-> <<>>]

\* a call of function fn with arguments args
Call(fn, args) == [fn |-> fn, args |-> args]

\* lines 125-129: the equation does not hold exactly one '='
InvalidFormat ==
    /\ pc = "start"
    /\ Len(Split(equation)) # 2
    /\ out' = Append(out, Line(MsgInvalid, <<>>))
    /\ pc' = "done"
    /\ UNCHANGED <<equation, side, leftCoeffs, rightCoeffs, reduced, reducedStr,
                   degree, qa, qb, qc, result, calls, thrown, pieces>>

\* lines 125-134: split, parse both sides, reduce, render, classify
ParseAndReduce ==
    /\ pc = "start"
    /\ Len(Split(equation)) = 2
    /\ LET sides == Split(equation)
           l     == parseSide(sides[1])
           r     == parseSide(sides[2])
           red   == getReducedForm(l, r)
       IN /\ leftCoeffs' = l
          /\ rightCoeffs' = r
          /\ reduced' = red
          /\ reducedStr' = buildReducedString(red) \o <<" = 0">>
          /\ degree' = getDegree(red)
    /\ pc' = "print"
    /\ UNCHANGED <<equation, side, qa, qb, qc, result, out, calls, thrown, pieces>>

\* lines 136-137: the reduced form, then the degree
PrintHeader ==
    /\ pc = "print"
    /\ out' = out \o <<Line(MsgReduced, reducedStr), Line(MsgDegree, degree)>>
    /\ pc' = "dispatch"
    /\ UNCHANGED <<equation, side, leftCoeffs, rightCoeffs, reduced, reducedStr,
                   degree, qa, qb, qc, result, calls, thrown, pieces>>

\* lines 139-142
DegreeTooHigh ==
    /\ pc = "dispatch"
    /\ TooHigh(degree)
    /\ out' = Append(out, Line(MsgTooHigh, <<>>))
    /\ pc' = "done"
    /\ UNCHANGED <<equation, side, leftCoeffs, rightCoeffs, reduced, reducedStr,
                   degree, qa, qb, qc, result, calls, thrown, pieces>>

\* lines 144-150
SolveDegree0 ==
    /\ pc = "dispatch"
    /\ ~TooHigh(degree)
    /\ degree = 0
    /\ LET c == OrZero(Get(reduced, 0))
       IN out' = Append(out, Line(IF abs(c) < EPS THEN MsgAllReals ELSE MsgNoSol,
                                  <<>>))
    /\ pc' = "done"
    /\ UNCHANGED <<equation, side, leftCoeffs, rightCoeffs, reduced, reducedStr,
                   degree, qa, qb, qc, result, calls, thrown, pieces>>

\* lines 151-160
SolveDegree1 ==
    /\ pc = "dispatch"
    /\ ~TooHigh(degree)
    /\ degree = 1
    /\ LET a   == OrZero(Get(reduced, 1))
           b   == OrZero(Get(reduced, 0))
           sol == solveLinear(a, b)
       IN /\ calls' = Append(calls, Call("solveLinear", <<a, b>>))
          /\ result' = sol
          /\ out' = IF sol.type = "null" THEN Append(out, Line(MsgNoSol, <<>>))
                    ELSE out \o <<Line(MsgLinear, <<>>),
                                  Line("", sol.solutions[1])>>
    /\ pc' = "done"
    /\ UNCHANGED <<equation, side, leftCoeffs, rightCoeffs, reduced, reducedStr,
                   degree, qa, qb, qc, thrown, pieces>>

\* the lines solvePolynomial writes for what solveQuadratic returned
QuadraticLines(res) ==
    IF res.type = "positive" THEN
        <<Line(MsgPositive, <<>>), Line("", res.solutions[1]),
          Line("", res.solutions[2])>>
    ELSE IF res.type = "zero" THEN
        <<Line(MsgZero, <<>>), Line("", res.solutions[1])>>
    ELSE
        <<Line(MsgNegative, <<>>), Line("", res.solutions[1]),
          Line("", res.solutions[2])>>

\* the calls a run of solveQuadratic(a, b, c) makes, itself included
QuadraticCalls(a, b, c, res) ==
    <<Call("solveQuadratic", <<a, b, c>>)>>
    \o [i \in DOMAIN res.sqrtArgs |-> Call("sqrtCustom", <<res.sqrtArgs[i]>>)]

\* lines 161-176; an exception thrown by sqrtCustom ends the run
SolveDegree2 ==
    /\ pc = "dispatch"
    /\ ~TooHigh(degree)
    /\ degree = 2
    /\ LET a   == OrZero(Get(reduced, 2))
           b   == OrZero(Get(reduced, 1))
           c   == OrZero(Get(reduced, 0))
           res == solveQuadratic(a, b, c)
       IN /\ qa' = a /\ qb' = b /\ qc' = c
          /\ calls' = calls \o QuadraticCalls(a, b, c, res)
          /\ thrown' = res.thrown
          /\ result' = res
          /\ out' = IF res.thrown THEN out ELSE out \o QuadraticLines(res)
    /\ pc' = "done"
    /\ UNCHANGED <<equation, side, leftCoeffs, rightCoeffs, reduced, reducedStr,
                   degree, pieces>>

----------------------------------------------------------------------------
(* The equations solvePolynomial is run on *)

\* the largest exponent written in an equation
MaxExp == 3

\* the decimal digit that is worth d
DigitChar(d) == CHOOSE c \in Digits : DigitVal(c) = d

\* the text " * X^e"
PowerText(e) == <<" ", "*", " ", "X", "^", DigitChar(e)>>

\* the coefficients written: 0, 0.00005 (10000 units) and 0.00000001 (1e-8)
CoefTexts ==
    { <<"0">>,
      <<"0", ".", "0", "0", "0", "0", "5">>,
      <<"0", ".", "0", "0", "0", "0", "0", "0", "0", "1">> }

\* what stands at one exponent of the left side: nothing, or a signed coefficient
NoTerm == [sign |-> "", coef |-> <<>>]

SlotChoices ==
    {NoTerm} \cup [sign : {"+"}, coef : CoefTexts]
             \cup {[sign |-> "-", coef |-> <<"0", ".", "0", "0", "0", "0", "5">>]}

RECURSIVE LeftText(_, _, _)
\* the left side "c0 * X^0 + c1 * X^1 - ...", from exponent e on; first says
\* that no term has been written yet
LeftText(slots, e, first) ==
    IF e > MaxExp THEN <<>>
    ELSE IF slots[e] = NoTerm THEN LeftText(slots, e + 1, first)
    ELSE (IF first THEN (IF slots[e].sign = "-" THEN <<"-">> ELSE <<>>)
          ELSE <<" ", slots[e].sign, " ">>)
         \o slots[e].coef \o PowerText(e) \o LeftText(slots, e + 1, FALSE)

LeftSides == {LeftText(s, 0, TRUE) : s \in [0..MaxExp -> SlotChoices]}

\* the right side: nothing, "0 * X^0", or "0.00005 * X^e"
RightSides ==
    {<<>>, <<"0">> \o PowerText(0)}
    \cup {<<"0", ".", "0", "0", "0", "0", "5">> \o PowerText(e) : e \in 0..MaxExp}

\* the sides used in the equations that do not hold exactly one '='
FewSides == {<<>>} \cup {c \o PowerText(0) : c \in CoefTexts}

Equations ==
    {l \o <<" ", "=", " ">> \o r : l \in LeftSides, r \in RightSides}
    \cup FewSides
    \cup {l \o <<"=">> \o r \o <<"=">> \o r : l \in FewSides, r \in FewSides}

\* every variable but pc and the input of the operation under study
Idle ==
    /\ leftCoeffs = EmptyMap
    /\ rightCoeffs = EmptyMap
    /\ reduced = EmptyMap
    /\ reducedStr = <<>>
    /\ degree = 0
    /\ qa = 0 /\ qb = 0 /\ qc = 0
    /\ result = NoResult
    /\ out = <<>>
    /\ calls = <<>>
    /\ thrown = FALSE

Init ==
    /\ pc = "start"
    /\ equation \in Equations
    /\ side = <<>>
    /\ pieces = <<>>
    /\ Idle

Next ==
    \/ InvalidFormat
    \/ ParseAndReduce
    \/ PrintHeader
    \/ DegreeTooHigh
    \/ SolveDegree0
    \/ SolveDegree1
    \/ SolveDegree2

\* solvePolynomial(equation), for every equation of Equations
Spec == Init /\ [][Next]_vars

----------------------------------------------------------------------------
(* parseSide alone *)

\* the number of pieces a side is put together from
MaxPieces == 3

\* a piece of text that is a term of exponent exp and coefficient val (units)
Term(text, exp, val) == [text |-> text, term |-> TRUE, exp |-> exp, val |-> val]

\* a piece of text that is no term
Junk(text) == [text |-> text, term |-> FALSE, exp |-> 0, val |-> 0]

\* the terms a side is written with; each opens with its sign
TermPieces ==
    { Term(<<"+", "1", "*", "X", "^", "0">>, 0, UnitsPerOne),
      Term(<<"-", "1", "*", "X", "^", "0">>, 0, -UnitsPerOne),
      Term(<<"+", "2", ".", "5", "*", "X", "^", "1">>, 1, 5 * (UnitsPerOne \div 2)),
      Term(<<" ", "-", " ", "0", ".", "5", " ", "*", " ", "X", "^", "1">>, 1,
           -(UnitsPerOne \div 2)),
      Term(<<"+", "2", "*", "X", "^", "1", "0">>, 10, 2 * UnitsPerOne) }

\* text that is no term: a bare number, a term without exponent, a term
\* without coefficient, a term whose coefficient holds no digit
JunkPieces ==
    { Junk(<<"+", "5">>),
      Junk(<<"+", "4", "*", "X">>),
      Junk(<<"+", "X", "^", "2">>),
      Junk(<<"+", ".", "*", "X", "^", "1">>) }

Pieces == TermPieces \cup JunkPieces

\* the sequences of at most n elements of S
SeqsUpTo(S, n) == UNION {[1..k -> S] : k \in 0..n}

RECURSIVE Concat(_)
\* the text of a sequence of pieces
Concat(ps) == IF ps = <<>> THEN <<>> ELSE Head(ps).text \o Concat(Tail(ps))

InitParse ==
    /\ pc = "parse"
    /\ pieces \in SeqsUpTo(Pieces, MaxPieces)
    /\ side = Concat(pieces)
    /\ equation = <<>>
    /\ Idle

\* const coeffs = parseSide(side)
ParseSide ==
    /\ pc = "parse"
    /\ leftCoeffs' = parseSide(side)
    /\ pc' = "parsed"
    /\ UNCHANGED <<equation, side, rightCoeffs, reduced, reducedStr, degree,
                   qa, qb, qc, result, out, calls, thrown, pieces>>

NextParse == ParseSide

\* parseSide(side), for every side put together from at most MaxPieces pieces
SpecParse == InitParse /\ [][NextParse]_vars

----------------------------------------------------------------------------
(* getReducedForm alone *)

\* the largest exponent of the two mappings given to getReducedForm
MaxKey == 1

\* the coefficients of these mappings, in units
ReduceValues == {-UnitsPerOne, -1, 0, 1, UnitsPerOne}

\* the mappings of exponents at most n to coefficients of V
Mappings(n, V) == UNION {[D -> V] : D \in SUBSET (0..n)}

InitReduce ==
    /\ pc = "reduce"
    /\ leftCoeffs \in Mappings(MaxKey, ReduceValues)
    /\ rightCoeffs \in Mappings(MaxKey, ReduceValues)
    /\ reduced = EmptyMap
    /\ reducedStr = <<>> /\ degree = 0
    /\ qa = 0 /\ qb = 0 /\ qc = 0
    /\ result = NoResult /\ out = <<>> /\ calls = <<>> /\ thrown = FALSE
    /\ equation = <<>> /\ side = <<>> /\ pieces = <<>>

\* const reduced = getReducedForm(leftCoeffs, rightCoeffs)
GetReducedForm ==
    /\ pc = "reduce"
    /\ reduced' = getReducedForm(leftCoeffs, rightCoeffs)
    /\ pc' = "reduced"
    /\ UNCHANGED <<equation, side, leftCoeffs, rightCoeffs, reducedStr, degree,
                   qa, qb, qc, result, out, calls, thrown, pieces>>

NextReduce == GetReducedForm

\* getReducedForm(leftCoeffs, rightCoeffs), for every pair of mappings
SpecReduce == InitReduce /\ [][NextReduce]_vars

----------------------------------------------------------------------------
(* buildReducedString and getDegree alone *)

\* the largest exponent of the reduced mapping given to them
MaxRedKey == 3

\* the coefficients of that mapping, in units: zero, below the tolerance, at
\* the tolerance and above it, of either sign
MapValues == {-(EPS + 1), -EPS, -1, 0, 1, EPS, EPS + 1}

InitMap ==
    /\ pc = "map"
    /\ reduced \in Mappings(MaxRedKey, MapValues)
    /\ leftCoeffs = EmptyMap /\ rightCoeffs = EmptyMap
    /\ reducedStr = <<>> /\ degree = 0
    /\ qa = 0 /\ qb = 0 /\ qc = 0
    /\ result = NoResult /\ out = <<>> /\ calls = <<>> /\ thrown = FALSE
    /\ equation = <<>> /\ side = <<>> /\ pieces = <<>>

\* buildReducedString(reduced)
BuildReducedString ==
    /\ pc = "map"
    /\ reducedStr' = buildReducedString(reduced)
    /\ pc' = "rendered"
    /\ UNCHANGED <<equation, side, leftCoeffs, rightCoeffs, reduced, degree,
                   qa, qb, qc, result, out, calls, thrown, pieces>>

\* const degree = getDegree(reduced)
GetDegree ==
    /\ pc = "map"
    /\ degree' = getDegree(reduced)
    /\ pc' = "classified"
    /\ UNCHANGED <<equation, side, leftCoeffs, rightCoeffs, reduced, reducedStr,
                   qa, qb, qc, result, out, calls, thrown, pieces>>

NextMap == BuildReducedString \/ GetDegree

\* buildReducedString(reduced) or getDegree(reduced), for every reduced mapping
SpecMap == InitMap /\ [][NextMap]_vars

----------------------------------------------------------------------------
(* solveQuadratic alone *)

\* the coefficients given to solveQuadratic, in units: 10000 units are 0.00005
QuadValues == {-20000, -10000, -(EPS + 1), -1, 0, 1, EPS + 1, 10000, 20000}

InitQuad ==
    /\ pc = "quad"
    /\ qa \in {v \in QuadValues : abs(v) > EPS}
    /\ qb \in QuadValues
    /\ qc \in QuadValues
    /\ leftCoeffs = EmptyMap /\ rightCoeffs = EmptyMap /\ reduced = EmptyMap
    /\ reducedStr = <<>> /\ degree = 0
    /\ result = NoResult /\ out = <<>> /\ calls = <<>> /\ thrown = FALSE
    /\ equation = <<>> /\ side = <<>> /\ pieces = <<>>

\* const result = solveQuadratic(a, b, c)
SolveQuadratic ==
    /\ pc = "quad"
    /\ LET res == solveQuadratic(qa, qb, qc)
       IN /\ result' = res
          /\ thrown' = res.thrown
          /\ calls' = calls \o QuadraticCalls(qa, qb, qc, res)
    /\ pc' = "solved"
    /\ UNCHANGED <<equation, side, leftCoeffs, rightCoeffs, reduced, reducedStr,
                   degree, qa, qb, qc, out, pieces>>

NextQuad == SolveQuadratic

\* solveQuadratic(a, b, c), for every a, b, c of QuadValues with a not negligible
SpecQuad == InitQuad /\ [][NextQuad]_vars

----------------------------------------------------------------------------
(* Properties *)

\* the coefficient of exponent e in mapping m, a missing entry counting as 0
ValueAt(m, e) == IF e \in DOMAIN m THEN m[e] ELSE 0

\* the fixed texts of the lines written
Texts(lines) == [i \in DOMAIN lines |-> lines[i].line]

\* the equation holds exactly one '=' and has been parsed and reduced
Reduced == pc \in {"print", "dispatch", "done"} /\ Len(Split(equation)) = 2

\* C1: getReducedForm(left, right) has exactly the exponents of left and of
\* right as keys, and at each exponent e the value left[e] - right[e], a missing
\* entry counting as 0; an exponent whose net is 0 is a key all the same.
C1_ReducedIsDifference ==
    pc = "reduced" =>
        /\ DOMAIN reduced = DOMAIN leftCoeffs \cup DOMAIN rightCoeffs
        /\ \A e \in DOMAIN reduced :
               reduced[e] = ValueAt(leftCoeffs, e) - ValueAt(rightCoeffs, e)

\* C1 witness: a reduced mapping with a key of net 0 between two non-zero
\* coefficients, and a key that only the right mapping has
C1_Witness ==
    /\ pc = "reduced"
    /\ \E e \in DOMAIN leftCoeffs \cap DOMAIN rightCoeffs :
           leftCoeffs[e] # 0 /\ reduced[e] = 0
    /\ \E e \in DOMAIN rightCoeffs \ DOMAIN leftCoeffs : reduced[e] = -rightCoeffs[e]

RECURSIVE SumAt(_, _)
\* the sum of the coefficients of the terms of exponent e among the pieces ps
SumAt(ps, e) ==
    IF ps = <<>> THEN 0
    ELSE (IF Head(ps).term /\ Head(ps).exp = e THEN Head(ps).val ELSE 0)
         + SumAt(Tail(ps), e)

\* the mapping C2 describes for the pieces ps
SumOfTerms(ps) ==
    [e \in {ps[i].exp : i \in {j \in DOMAIN ps : ps[j].term}} |-> SumAt(ps, e)]

\* C2: parseSide maps each exponent of a well-formed term to the sum of the
\* signed coefficients of the well-formed terms of that exponent; text that is
\* no such term adds no key and changes no value.
C2_ParseSideSumsTerms ==
    pc = "parsed" => leftCoeffs = SumOfTerms(pieces)

\* the exponents of mapping m whose coefficient exceeds the tolerance
NonNegligible(m) == {e \in DOMAIN m : abs(m[e]) > EPS}

\* mapping m without its entry at e
Without(m, e) == [x \in DOMAIN m \ {e} |-> m[x]]

\* C3: getDegree returns the largest exponent whose coefficient is above 1e-8 in
\* magnitude, and 0 when there is none; an entry of magnitude at most 1e-8
\* changes nothing.
C3_DegreeIsLargestSurvivor ==
    pc = "classified" =>
        /\ NonNegligible(reduced) = {} => degree = 0
        /\ NonNegligible(reduced) # {} =>
               /\ degree \in NonNegligible(reduced)
               /\ \A e \in NonNegligible(reduced) : e <= degree
        /\ \A e \in DOMAIN reduced \ NonNegligible(reduced) :
               getDegree(Without(reduced, e)) = degree

\* C3 witness: degree 1 under a higher exponent whose coefficient is exactly the
\* tolerance, and a lower exponent above it
C3_Witness ==
    /\ pc = "classified"
    /\ degree = 1
    /\ \E e \in DOMAIN reduced : e > 1 /\ abs(reduced[e]) = EPS
    /\ 0 \in NonNegligible(reduced)

\* C4: solveQuadratic has two real roots when d > 1e-8, the one real root
\* -b/(2a) when |d| <= 1e-8, both ends included, and a complex pair when
\* d < -1e-8, d being b*b - 4*a*c.
C4_DiscriminantClasses ==
    pc = "solved" =>
        LET d == qb * qb - 4 * qa * qc
        IN /\ d > DEPS => result.type = "positive"
           /\ abs(d) <= DEPS =>
                  /\ result.type = "zero"
                  /\ result.solutions = <<Quot(-qb, 2 * qa)>>
           /\ d < -DEPS => result.type = "negative"

\* C5: on a run of solvePolynomial, sqrtCustom is never given a negative number
\* and never throws.
C5_SqrtArgumentNeverNegative ==
    /\ ~thrown
    /\ \A i \in DOMAIN calls :
           calls[i].fn = "sqrtCustom" => calls[i].args[1] >= 0

\* the quotient q is above 0
Positive(q) == (q[1] > 0 /\ q[2] > 0) \/ (q[1] < 0 /\ q[2] < 0)

\* C6: in the complex pair of solveQuadratic the imaginary part is above 0,
\* whatever the sign of a.
C6_ImaginaryPartPositive ==
    (pc = "solved" /\ result.type = "negative") =>
        \A i \in DOMAIN result.solutions : Positive(result.solutions[i].im)

\* C7: when the reduced form has a non-negligible coefficient above exponent 2,
\* solvePolynomial writes the reduced form, then the degree, then that the
\* degree is too high, and nothing more; no solver is called.
C7_TooHighStopsAfterMessage ==
    (Reduced /\ \E e \in NonNegligible(reduced) : e > 2) =>
        /\ calls = <<>>
        /\ ~thrown
        /\ result = NoResult
        /\ pc = "print" => out = <<>>
        /\ pc = "dispatch" => Texts(out) = <<MsgReduced, MsgDegree>>
        /\ pc = "done" => Texts(out) = <<MsgReduced, MsgDegree, MsgTooHigh>>
        /\ pc # "print" => out[1].val = reducedStr /\ out[2].val = degree
        /\ degree > 2

\* C7 witness: a finished run on an equation of degree 3 that also has terms of
\* exponent 1 and 2
C7_Witness ==
    /\ Reduced /\ pc = "done"
    /\ 3 \in NonNegligible(reduced)
    /\ {1, 2} \subseteq NonNegligible(reduced)
    /\ Len(out) = 3

\* C8: in the text of buildReducedString the first term shown opens with "-" or
\* with nothing, never with " + " or " - ", and every later term opens with
\* " + " or " - ".
C8_FirstTermHasNoSeparator ==
    (pc = "rendered" /\ reducedStr # <<"0">>) =>
        /\ reducedStr[1] \in {"", "-"}
        /\ \A i \in DOMAIN reducedStr :
               (i > 1 /\ i % 4 = 1) => reducedStr[i] \in {" + ", " - "}

\* every coefficient of mapping m is exactly 0
AllZero(m) == \A e \in DOMAIN m : m[e] = 0

\* C9, as claimed: a reduced mapping whose coefficients are all 0 is written "0",
\* has degree 0, and the answer is that all real numbers are solutions.
C9_ZeroIsWrittenAsZero ==
    (Reduced /\ pc = "done" /\ AllZero(reduced)) =>
        /\ reducedStr = <<"0", " = 0">>
        /\ degree = 0
        /\ Texts(out) = <<MsgReduced, MsgDegree, MsgAllReals>>

\* C9, amended: such a mapping has degree 0 and the answer is that all real
\* numbers are solutions; it is written "0" when it has no entry or several,
\* and "0 * X^e" when its only entry is at exponent e.
C9_ZeroIsWrittenAsZeroOrItsOnlyTerm ==
    (Reduced /\ pc = "done" /\ AllZero(reduced)) =>
        /\ Cardinality(DOMAIN reduced) # 1 => reducedStr = <<"0", " = 0">>
        /\ \A e \in DOMAIN reduced :
               DOMAIN reduced = {e} =>
                   reducedStr = <<"", "0", " * X^", ToString(e), " = 0">>
        /\ degree = 0
        /\ Texts(out) = <<MsgReduced, MsgDegree, MsgAllReals>>

\* C9 witness: the run on "0 * X^0 = 0 * X^0" has finished
C9_Witness ==
    /\ Reduced /\ pc = "done"
    /\ equation = <<"0">> \o PowerText(0) \o <<" ", "=", " ">> \o <<"0">> \o PowerText(0)
    /\ DOMAIN reduced = {0} /\ reduced[0] = 0

\* C10: solveLinear and solveQuadratic are only ever called with a leading
\* coefficient above 1e-8 in magnitude, so solveLinear never returns null and
\* the degree-1 branch never writes "No solution.".
C10_LeadingCoefficientNotNegligible ==
    /\ \A i \in DOMAIN calls :
           calls[i].fn \in {"solveLinear", "solveQuadratic"} =>
               abs(calls[i].args[1]) > EPS
    /\ (Reduced /\ pc = "dispatch" /\ degree \in {1, 2}) =>
           abs(ValueAt(reduced, degree)) > EPS
    /\ (Reduced /\ pc = "done" /\ degree = 1) =>
           /\ result.type = "root"
           /\ Texts(out) = <<MsgReduced, MsgDegree, MsgLinear, "">>

\* C10 witness: a finished run of degree 1 whose coefficient at exponent 2 is
\* exactly the tolerance
C10_Witness ==
    /\ Reduced /\ pc = "done"
    /\ degree = 1
    /\ result.type = "root"
    /\ 2 \in DOMAIN reduced /\ abs(reduced[2]) = EPS

=============================================================================
